---- MODULE Spec2Model ----
(***************************************************************************)
(* Load-Tester: the flow engine (src/flows/flow-loader.js, FlowLoader) and *)
(* the single-request engine (src/StressTest.js, StressTest).              *)
(*                                                                         *)
(* JavaScript values are coded as pairs of strings <<tag, arg>>; a string  *)
(* that may hold {{placeholders}} is a sequence of tokens, each token a    *)
(* sequence of strings: <<"lit", text>> or <<"ph", key1, key2, ...>>.      *)
(* One task runs at a time (one event loop); a task gives up control only  *)
(* at an await.                                                            *)
(***************************************************************************)
EXTENDS Integers, Sequences, FiniteSets, TLC

\* ---------------------------------------------------------------- bounds
MaxTotal == 3
MaxConcurrent == 2
MaxLatency == 1

\* ------------------------------------------------------ program constants
DefaultTotalFlows == 100
DefaultConcurrentUsers == 10
Infinity == 1000000

\* ------------------------------------------------------------------ state
VARIABLES
  options,        \* the options object, but for options.flow
  flow,           \* options.flow, the step definitions (objects the code can write to)
  metrics,        \* this.metrics but for flowMetrics
  flowMetrics,    \* this.metrics.flowMetrics
  runPc,          \* where run() is: "start", "loop", "await", "done", "invalid"
  totalFlows,     \* run(): totalFlows / totalRequests
  concurrentUsers,\* run(): concurrentUsers
  i,              \* run(): the loop index
  batch,          \* run(): the tasks of the wave being awaited
  progress,       \* the value the progress bar was last given
  flow0,          \* history: options.flow as it was loaded
  attempts,       \* history: per step, the makeRequest invocations so far
  launched,       \* history: instances launched so far
  waves,          \* history: the sizes of the waves launched so far
  waveStart,      \* history: metrics and flowMetrics when the wave was launched
  updates,        \* history: the values given to progressBar.update, in order
  consoleError,   \* the messages written with console.error
  report,         \* what displayResults printed
  process,        \* the Node process: whether it has exited, and its exit code
  call            \* a call of a function of FlowLoader on its own: arguments and result

vars == <<options, flow, metrics, flowMetrics, runPc, totalFlows, concurrentUsers, i,
          batch, progress, flow0, attempts, launched, waves, waveStart, updates,
          consoleError, report, process, call>>

\* ------------------------------------------------------------- JS values
Undefined == <<"undefined", "">>
Null == <<"null", "">>
StrV(s) == <<"str", s>>
NumV(s) == <<"num", s>>
ObjV(id) == <<"obj", id>>
\* the object literal {data, headers, status} built by executeFlow
Envelope(d, h, s) == <<"env", d[1], d[2], h[1], h[2], s[1], s[2]>>

IsNullish(v) == v = Undefined \/ v = Null

\* a value in a condition: undefined, null, "", 0 and false count as false
Truthy(v) == v \notin {Undefined, Null, <<"str", "">>, <<"num", "0">>, <<"bool", "false">>}

\* The objects the transport can hand back (response bodies and header
\* maps) and their properties.
ObjectProps(id) ==
  CASE id = "bodyA" -> [Result |-> ObjV("resultA"), status |-> StrV("ok")]
    [] id = "bodyB" -> [Result |-> ObjV("resultB"), status |-> StrV("fail")]
    [] id = "resultA" -> [accessToken |-> StrV("tokA")]
    [] id = "resultB" -> [accessToken |-> StrV("tokB")]
    [] id = "bodyC" -> [Result |-> ObjV("resultC"), status |-> Null, count |-> NumV("2")]
    [] id = "resultC" -> [accessToken |-> Null]
    [] id = "hdrJson" -> [contentType |-> StrV("application/json")]
    [] OTHER -> <<>>

\* current[key] for a value that is neither undefined nor null
GetProp(v, key) ==
  CASE v[1] = "obj" ->
         IF key \in DOMAIN ObjectProps(v[2]) THEN ObjectProps(v[2])[key] ELSE Undefined
    [] v[1] = "env" ->
         CASE key = "data" -> <<v[2], v[3]>>
           [] key = "headers" -> <<v[4], v[5]>>
           [] key = "status" -> <<v[6], v[7]>>
           [] OTHER -> Undefined
    [] OTHER -> Undefined

\* flowContext[key]: the context is a plain object, keys are added by assignment
CtxGet(ctx, key) == IF key \in DOMAIN ctx THEN ctx[key] ELSE Undefined
CtxSet(ctx, key, v) ==
  [k \in (DOMAIN ctx) \cup {key} |-> IF k = key THEN v ELSE ctx[k]]
EmptyContext == [k \in {} |-> Undefined]

\* String(value), as String.prototype.replace applies it to what the callback returns
ToText(v) ==
  CASE v[1] = "str" -> v[2]
    [] v[1] = "num" -> v[2]
    [] v[1] = "null" -> "null"
    [] v[1] = "undefined" -> "undefined"
    [] OTHER -> "[object Object]"

\* ------------------------------------------------------ Template Resolver
NoMatch == <<"nomatch", "">>

\* the for loop of the replace callback, from a value already looked up:
\* NoMatch stands for "return match"
RECURSIVE WalkParts(_, _)
WalkParts(value, parts) ==
  IF parts = <<>> THEN value
  ELSE IF IsNullish(value) THEN NoMatch
  ELSE WalkParts(GetProp(value, Head(parts)), Tail(parts))

\* the replace callback for one {{key}} token: the token it leaves in the string
ReplaceToken(tok, ctx) ==
  IF tok[1] # "ph" THEN tok
  ELSE LET keyParts == Tail(tok)
           value == WalkParts(CtxGet(ctx, Head(keyParts)), Tail(keyParts))
       IN IF value = NoMatch \/ value = Undefined THEN tok
          ELSE <<"lit", ToText(value)>>

\* replaceTemplateValues(str, context); a non-string is returned as it is
replaceTemplateValues(str, ctx) == [n \in DOMAIN str |-> ReplaceToken(str[n], ctx)]

ReplaceMap(map, ctx) == [k \in DOMAIN map |-> replaceTemplateValues(map[k], ctx)]

\* ---------------------------------------------------- Assertion Evaluator
\* An assertion is a record [type, value, path, operator, name, fn]; a field
\* the configuration leaves out is Undefined (path: the split path, << >>).
\* A reason is a sequence of strings; NullReason is the JS null.
NullReason == <<"null">>

\* what runAssertion does: it returns {passed, error} or it throws
Returned(passed, error) == [threw |-> FALSE, passed |-> passed, error |-> error]
Threw(message) == [threw |-> TRUE, passed |-> FALSE, error |-> message]

\* getValueByPath(obj, path): reduce over path.split('.')
RECURSIVE getValueByPath(_, _)
getValueByPath(obj, path) ==
  IF path = <<>> THEN obj
  ELSE getValueByPath(IF IsNullish(obj) THEN Undefined ELSE GetProp(obj, Head(path)),
                      Tail(path))

\* a === b for a value of the response and a value written in the configuration:
\* two objects are never the same object
StrictEquals(a, b) == a = b /\ a[1] \in {"str", "num", "null", "undefined"}

\* the numbers the model writes, by their decimal text
NumberOf(text) ==
  CASE text = "0" -> 0 [] text = "1" -> 1 [] text = "2" -> 2
    [] text = "200" -> 200 [] text = "201" -> 201 [] OTHER -> -1

\* ToNumber(v) is NaN unless v is a number or null
IsNaN(v) == v[1] \notin {"num", "null"}
ToNumber(v) == IF v[1] = "num" THEN NumberOf(v[2]) ELSE 0

\* a > b and a <= b as JS compares a response value with a configured number
GreaterThan(a, b) == ~IsNaN(a) /\ ~IsNaN(b) /\ ToNumber(a) > ToNumber(b)
LessOrEqual(a, b) == ~IsNaN(a) /\ ~IsNaN(b) /\ ToNumber(a) <= ToNumber(b)

\* value && value.includes && value.includes(x): only a non-empty string has
\* includes here; the substring test for the texts the model writes
Includes(text, x) ==
  \/ text = x
  \/ text = "application/json" /\ x = "json"
  \/ text = "tokA" /\ x = "tok"
  \/ text = "tokB" /\ x = "tok"
Contains(value, x) == value[1] = "str" /\ value[2] # "" /\ x[1] = "str" /\ Includes(value[2], x[2])

\* new RegExp(pattern) throws on "(" ; regex.test(text) for the patterns written
RegExpValid(pattern) == pattern # "("
RegExpTest(pattern, text) ==
  \/ pattern = "^tok" /\ text \in {"tokA", "tokB"}
  \/ pattern = "ok" /\ text \in {"ok", "tokA", "tokB"}
  \/ pattern = "undefined" /\ text = "undefined"

\* the custom predicates a configuration may hold: what fn(response, context)
\* returns (a value) or that it throws
CustomResult(fn, response, ctx) ==
  CASE fn = "isOk" -> [threw |-> FALSE,
                       value |-> IF response.status = NumV("200") THEN <<"bool", "true">>
                                 ELSE <<"bool", "false">>]
    [] fn = "needsAuth" -> [threw |-> FALSE,
                            value |-> IF "auth" \in DOMAIN ctx THEN <<"bool", "true">>
                                      ELSE StrV("no auth in context")]
    [] OTHER -> [threw |-> TRUE, value |-> Undefined]

JsonPathOperator(a, value) ==
  CASE a.operator = "equals" ->
         Returned(StrictEquals(value, a.value),
                  IF ~StrictEquals(value, a.value)
                  THEN <<"Expected", "path", "to equal", ToText(a.value), "got", ToText(value)>>
                  ELSE NullReason)
    [] a.operator = "contains" ->
         Returned(Contains(value, a.value),
                  IF ~Contains(value, a.value)
                  THEN <<"Expected", "path", "to contain", ToText(a.value)>>
                  ELSE NullReason)
    [] a.operator = "exists" ->
         Returned(value # Undefined /\ value # Null,
                  IF value = Undefined \/ value = Null
                  THEN <<"Expected", "path", "to exist">> ELSE NullReason)
    [] a.operator = "notExists" ->
         Returned(value = Undefined \/ value = Null,
                  IF value # Undefined /\ value # Null
                  THEN <<"Expected", "path", "to not exist">> ELSE NullReason)
    [] a.operator = "greaterThan" ->
         Returned(GreaterThan(value, a.value),
                  IF LessOrEqual(value, a.value)
                  THEN <<"Expected", "path", "to be greater than", ToText(a.value), "got", ToText(value)>>
                  ELSE NullReason)
    [] a.operator = "lessThan" ->
         Returned(GreaterThan(a.value, value),
                  IF LessOrEqual(a.value, value)
                  THEN <<"Expected", "path", "to be less than", ToText(a.value), "got", ToText(value)>>
                  ELSE NullReason)
    [] a.operator = "match" ->
         IF ~RegExpValid(ToText(a.value))
         THEN Returned(FALSE, <<"Failed to evaluate path", "path", "Invalid regular expression">>)
         ELSE Returned(RegExpTest(ToText(a.value), ToText(value)),
                       IF ~RegExpTest(ToText(a.value), ToText(value))
                       THEN <<"Expected", "path", "to match", ToText(a.value), "got", ToText(value)>>
                       ELSE NullReason)
    [] OTHER -> Returned(FALSE, <<"Unknown operator", a.operator>>)

\* runAssertion(assertion, response, flowContext). response.config is the
\* request descriptor, which has no metadata: the responseTime case throws
\* a TypeError reading response.config.metadata.responseTime.
runAssertion(a, response, ctx) ==
  CASE a.type = "statusCode" ->
         Returned(response.status = a.value,
                  IF response.status # a.value
                  THEN <<"Expected status", ToText(a.value), "got", ToText(response.status)>>
                  ELSE NullReason)
    [] a.type = "jsonPath" ->
         JsonPathOperator(a, getValueByPath(response.data, a.path))
    [] a.type = "responseTime" ->
         Threw(<<"Cannot read properties of undefined (reading 'responseTime')">>)
    [] a.type = "header" ->
         LET headerValue == GetProp(response.headers, a.name)
         IN IF Truthy(a.value)
            THEN Returned(headerValue = a.value,
                          IF headerValue # a.value
                          THEN <<"Expected header", a.name, "to be", ToText(a.value), "got", ToText(headerValue)>>
                          ELSE NullReason)
            ELSE Returned(headerValue # Undefined,
                          IF headerValue = Undefined
                          THEN <<"Expected header", a.name, "to exist">> ELSE NullReason)
    [] a.type = "custom" ->
         LET r == CustomResult(a.fn, response, ctx)
         IN IF r.threw THEN Returned(FALSE, <<"Custom assertion error", a.fn>>)
            ELSE Returned(r.value = <<"bool", "true">>,
                          IF r.value # <<"bool", "true">>
                          THEN (IF r.value[1] = "str" THEN <<r.value[2]>>
                                ELSE <<"Custom assertion failed">>)
                          ELSE NullReason)
    [] OTHER -> Returned(FALSE, <<"Unknown assertion type", a.type>>)

\* (mutant) the loop stops at the first assertion that does not pass
RECURSIVE RunAssertionsStopAtFirst(_, _, _, _)
RunAssertionsStopAtFirst(assertions, response, ctx, acc) ==
  IF assertions = <<>> \/ ~acc.passed THEN acc
  ELSE LET result == runAssertion(Head(assertions), response, ctx)
           next == IF result.threw
                   THEN [passed |-> FALSE,
                         errors |-> Append(acc.errors, <<"Assertion error">> \o result.error)]
                   ELSE IF ~result.passed
                   THEN [passed |-> FALSE, errors |-> Append(acc.errors, result.error)]
                   ELSE acc
       IN RunAssertionsStopAtFirst(Tail(assertions), response, ctx, next)

\* the for loop over step.assertions in makeRequest: [passed, errors]
RECURSIVE RunAssertions(_, _, _, _)
RunAssertions(assertions, response, ctx, acc) ==
  IF assertions = <<>> THEN acc
  ELSE LET result == runAssertion(Head(assertions), response, ctx)
           next == IF result.threw
                   THEN [passed |-> FALSE,
                         errors |-> Append(acc.errors, <<"Assertion error">> \o result.error)]
                   ELSE IF ~result.passed
                   THEN [passed |-> FALSE, errors |-> Append(acc.errors, result.error)]
                   ELSE acc
       IN RunAssertions(Tail(assertions), response, ctx, next)

\* ------------------------------------------------------ step definitions
True == <<"bool", "true">>
False == <<"bool", "false">>

Lit(text) == <<"lit", text>>
NoMap == [k \in {} |-> <<>>]

\* a step of options.flow. headers and data are [kind, map]: kind is
\* "absent", "object" (an object literal) or "string" (JSON text of the map);
\* saveAs / saveResponseAs / name are "" when the step leaves them out.
Step(name, method, url, headers, data, assertions, saveAs, saveResponseAs, stopOnFailure) ==
  [name |-> name, method |-> method, url |-> url, headers |-> headers, data |-> data,
   assertions |-> assertions, saveAs |-> saveAs, saveResponseAs |-> saveResponseAs,
   stopOnFailure |-> stopOnFailure]

Assertion(type, value, path, operator, name, fn) ==
  [type |-> type, value |-> value, path |-> path, operator |-> operator,
   name |-> name, fn |-> fn]

StatusIs(code) == Assertion("statusCode", NumV(code), <<>>, "", "", "")
JsonPath(path, operator, value) == Assertion("jsonPath", value, path, operator, "", "")

LoginData == [kind |-> "object", map |-> [email |-> <<Lit("NO")>>, password |-> <<Lit("NO")>>]]
BearerAuth == [Authorization |-> <<Lit("Bearer "), <<"ph", "auth", "Result", "accessToken">>>>]

\* src/flows/flow-test.js: the token of step 1 is used in a header of step 2
FlowTest ==
  << Step("Get Token", "POST", <<Lit("/auth/login")>>,
          [kind |-> "absent", map |-> NoMap], LoginData, <<>>, "auth", "", Undefined),
     Step("Get Marketplaces", "GET", <<Lit("/account/marketplaces")>>,
          [kind |-> "object", map |-> BearerAuth], [kind |-> "absent", map |-> NoMap],
          <<>>, "", "", Undefined) >>

\* three steps: step 2 declares stopOnFailure: false, writes the key step 1
\* wrote and keeps its envelope; step 3 reads both and aborts on failure
FlowThree ==
  << Step("", "POST", <<Lit("/auth/login")>>,
          [kind |-> "string", map |-> [Accept |-> <<Lit("application/json")>>]],
          LoginData, <<StatusIs("200")>>, "auth", "", StrV("false")),
     Step("Refresh", "POST", <<Lit("/auth/refresh/"), <<"ph", "auth", "Result", "accessToken">>>>,
          [kind |-> "absent", map |-> NoMap],
          [kind |-> "string", map |-> [token |-> <<<<"ph", "auth", "Result", "accessToken">>>>]],
          <<JsonPath(<<"status">>, "equals", StrV("ok")), StatusIs("200")>>,
          "auth", "refresh", False),
     Step("Me", "GET", <<Lit("/me/"), <<"ph", "refresh", "status">>>>,
          [kind |-> "object", map |-> BearerAuth], [kind |-> "absent", map |-> NoMap],
          <<JsonPath(<<"Result", "accessToken">>, "exists", Undefined)>>,
          "", "me", True) >>

\* one step, one assertion
FlowPing ==
  << Step("Ping", "GET", <<Lit("/ping")>>, [kind |-> "absent", map |-> NoMap],
          [kind |-> "absent", map |-> NoMap], <<StatusIs("200")>>, "", "", Undefined) >>

Flows == {FlowPing, FlowTest, FlowThree}

\* ----------------------------------------------------------------- metrics
Min(a, b) == IF a < b THEN a ELSE b
Max(a, b) == IF a > b THEN a ELSE b

StepLabel(index) == CASE index = 1 -> "Step 1" [] index = 2 -> "Step 2" [] OTHER -> "Step 3"

\* FlowLoader constructor: one record per step, in step order
InitFlowMetrics(fl) ==
  [index \in DOMAIN fl |->
     [name |-> IF fl[index].name # "" THEN fl[index].name ELSE StepLabel(index),
      successCount |-> 0, failureCount |-> 0, assertionFailures |-> 0,
      totalLatency |-> 0, minLatency |-> Infinity, maxLatency |-> 0]]

\* the metrics object of either class; a field a class does not have stays
\* as it starts (assertionFailures: undefined counts as 0)
InitMetrics ==
  [successCount |-> 0, failureCount |-> 0, assertionFailures |-> 0,
   totalLatency |-> 0, minLatency |-> Infinity, maxLatency |-> 0,
   totalFlowTime |-> 0, minFlowTime |-> Infinity, maxFlowTime |-> 0]

\* (mutant) a step whose assertions failed is counted as a success as well
UpdateStepMetricsBoth(m, assertionsPassed, latency) ==
  [m EXCEPT !.successCount = @ + 1,
            !.failureCount = IF assertionsPassed THEN @ ELSE @ + 1,
            !.assertionFailures = IF assertionsPassed THEN @ ELSE @ + 1,
            !.totalLatency = @ + latency,
            !.minLatency = Min(@, latency),
            !.maxLatency = Max(@, latency)]

\* FlowLoader.makeRequest, after the assertions: the step's metrics record
UpdateStepMetrics(m, assertionsPassed, latency) ==
  [m EXCEPT !.successCount = IF assertionsPassed THEN @ + 1 ELSE @,
            !.failureCount = IF assertionsPassed THEN @ ELSE @ + 1,
            !.assertionFailures = IF assertionsPassed THEN @ ELSE @ + 1,
            !.totalLatency = @ + latency,
            !.minLatency = Min(@, latency),
            !.maxLatency = Max(@, latency)]

\* (mutant) the catch block counts an assertion failure as well
CountStepFailureAndAssertion(m) ==
  [m EXCEPT !.failureCount = @ + 1, !.assertionFailures = @ + 1]

\* FlowLoader.makeRequest, the catch block
CountStepFailure(m) == [m EXCEPT !.failureCount = @ + 1]

\* (mutant) a failed flow is counted only when an assertion failed in it
UpdateFlowMetricsNoFail(m, allStepsSuccessful, flowTime, flowAssertionFailures) ==
  IF allStepsSuccessful
  THEN [m EXCEPT !.successCount = @ + 1,
                 !.totalFlowTime = @ + flowTime,
                 !.minFlowTime = Min(@, flowTime),
                 !.maxFlowTime = Max(@, flowTime)]
  ELSE [m EXCEPT !.failureCount = IF flowAssertionFailures > 0 THEN @ + 1 ELSE @,
                 !.assertionFailures = IF flowAssertionFailures > 0 THEN @ + 1 ELSE @]

\* (mutant) the counters are read when the wave is launched and written back
\* when the flow ends: a read-modify-write across the awaits
UpdateFlowMetricsStale(m, allStepsSuccessful, flowTime, flowAssertionFailures) ==
  IF allStepsSuccessful
  THEN [m EXCEPT !.successCount = waveStart.metrics.successCount + 1,
                 !.totalFlowTime = waveStart.metrics.totalFlowTime + flowTime,
                 !.minFlowTime = Min(@, flowTime),
                 !.maxFlowTime = Max(@, flowTime)]
  ELSE [m EXCEPT !.failureCount = waveStart.metrics.failureCount + 1,
                 !.assertionFailures = IF flowAssertionFailures > 0 THEN @ + 1 ELSE @]

\* FlowLoader.executeFlow, the flow's outcome folded into this.metrics
UpdateFlowMetrics(m, allStepsSuccessful, flowTime, flowAssertionFailures) ==
  IF allStepsSuccessful
  THEN [m EXCEPT !.successCount = @ + 1,
                 !.totalFlowTime = @ + flowTime,
                 !.minFlowTime = Min(@, flowTime),
                 !.maxFlowTime = Max(@, flowTime)]
  ELSE [m EXCEPT !.failureCount = @ + 1,
                 !.assertionFailures = IF flowAssertionFailures > 0 THEN @ + 1 ELSE @]

\* StressTest.makeRequest after the transport call, and its catch block
CountRequestSuccess(m, latency) ==
  [m EXCEPT !.successCount = @ + 1,
            !.totalLatency = @ + latency,
            !.minLatency = Min(@, latency),
            !.maxLatency = Max(@, latency)]
CountRequestFailure(m) == [m EXCEPT !.failureCount = @ + 1]

\* ------------------------------------------------------------ final report
\* (num / den).toFixed(2) for den > 0, in hundredths
Fixed2(num, den) == (200 * num + den) \div (2 * den)

\* ((successCount / total) * 100).toFixed(2): 0 / 0 is NaN and prints as "NaN"
SuccessRate(successCount, total) ==
  IF total = 0 THEN [nan |-> TRUE, hundredths |-> 0]
  ELSE [nan |-> FALSE, hundredths |-> Fixed2(successCount * 100, total)]

\* the Minimum / Maximum / Average lines of one metrics record; shown is
\* FALSE when the report leaves the three lines out
Statistics(shown, minimum, maximum, average) ==
  [shown |-> shown,
   Minimum |-> IF shown THEN minimum ELSE 0,
   Maximum |-> IF shown THEN maximum ELSE 0,
   Average |-> IF shown THEN average ELSE 0]

\* the line of an assertion-failure count, printed when the count is truthy
CountLine(count) == [shown |-> count # 0, count |-> count]

NoReport ==
  [printed |-> FALSE, total |-> 0, successful |-> 0, failed |-> 0,
   assertionFailures |-> CountLine(0), successRate |-> SuccessRate(0, 0),
   statistics |-> Statistics(FALSE, 0, 0, 0), steps |-> <<>>]

\* FlowLoader.displayResults(totalFlows), options.verbose not set
displayResults(m, fm, total) ==
  [printed |-> TRUE, total |-> total,
   successful |-> m.successCount, failed |-> m.failureCount,
   assertionFailures |-> CountLine(m.assertionFailures),
   successRate |-> SuccessRate(m.successCount, total),
   statistics |->
     IF m.successCount > 0
     THEN Statistics(TRUE, m.minFlowTime, m.maxFlowTime,
                     Fixed2(m.totalFlowTime, m.successCount))
     ELSE Statistics(FALSE, 0, 0, 0),
   steps |->
     [index \in DOMAIN fm |->
        [name |-> fm[index].name,
         successful |-> fm[index].successCount, failed |-> fm[index].failureCount,
         assertionFailures |-> CountLine(fm[index].assertionFailures),
         statistics |->
           IF fm[index].successCount > 0
           THEN Statistics(TRUE, fm[index].minLatency, fm[index].maxLatency,
                           Fixed2(fm[index].totalLatency, fm[index].successCount))
           ELSE Statistics(FALSE, 0, 0, 0)]]]

\* StressTest.displayResults(totalRequests): the latency lines are printed
\* whatever successCount is; totalLatency / successCount || 0 is 0 for 0 / 0
StressTestDisplayResults(m, total) ==
  [printed |-> TRUE, total |-> total,
   successful |-> m.successCount, failed |-> m.failureCount,
   assertionFailures |-> CountLine(0),
   successRate |-> SuccessRate(m.successCount, total),
   statistics |->
     Statistics(TRUE, m.minLatency, m.maxLatency,
                IF m.successCount = 0 THEN 0 ELSE Fixed2(m.totalLatency, m.successCount)),
   steps |-> <<>>]

\* the process: it exits when run() has returned and nothing is pending; no
\* code of the repository sets an exit code on these paths
Exited(code) == [exited |-> TRUE, exitCode |-> code]
NotExited == [exited |-> FALSE, exitCode |-> 0]

FlowConfigError == "Error: Flow configuration is required and must be an array of steps"

\* -------------------------------------------------------------- transport
\* what the transport collaborator (axios) may resolve with; it may also reject
Response(status, data, headers) == [status |-> status, data |-> data, headers |-> headers]
Responses ==
  { Response(NumV("200"), ObjV("bodyA"), ObjV("hdrJson")),
    Response(NumV("201"), ObjV("bodyB"), ObjV("hdrJson")) }
Latencies == 0..MaxLatency

\* ---------------------------------------------------- tasks of a wave
NoRequest == [method |-> "", url |-> <<>>, headers |-> NoMap,
              data |-> [present |-> FALSE, map |-> NoMap]]
NoResult == [success |-> FALSE, data |-> Undefined, latency |-> 0, statusCode |-> Undefined,
             headers |-> Undefined, assertionErrors |-> <<>>, error |-> <<>>]

\* one executeFlow() call (or one StressTest.makeRequest() call): its locals,
\* where it is suspended, and (log) the outcome of each step it has attempted
NewTask ==
  [pc |-> "new", i |-> 0, flowContext |-> EmptyContext, allStepsSuccessful |-> TRUE,
   flowAssertionFailures |-> 0, requestConfig |-> NoRequest, result |-> NoResult,
   elapsed |-> 0, log |-> <<>>]

Outcome(stepIndex, responded, success, latency) ==
  [step |-> stepIndex, responded |-> responded, success |-> success, latency |-> latency]

\* what makeRequest returns from its catch block
FailureResult(message, latency) ==
  [NoResult EXCEPT !.error = message, !.latency = latency]

\* executeFlow: the requestConfig object literal of step `step`
BuildRequestConfig(step) ==
  [method |-> step.method, url |-> step.url,
   headers |-> IF step.headers.kind = "absent" THEN NoMap ELSE step.headers.map,
   data |-> IF step.data.kind = "absent" THEN [present |-> FALSE, map |-> NoMap]
            ELSE [present |-> TRUE, map |-> step.data.map]]

\* makeRequest: the request after the Template Resolver went over url, headers, data
ResolveRequestConfig(config, ctx) ==
  [config EXCEPT !.url = replaceTemplateValues(@, ctx),
                 !.headers = ReplaceMap(@, ctx),
                 !.data = IF @.present THEN [present |-> TRUE, map |-> ReplaceMap(@.map, ctx)]
                          ELSE @]

\* makeRequest: { ...config } copies the references, so requestConfig.headers is
\* step.headers itself when the step gives headers as an object, and
\* requestConfig.headers[key] = ... writes into the step definition
HeadersWrittenThrough(fl, stepIndex, ctx) ==
  IF fl[stepIndex].headers.kind = "object"
  THEN [fl EXCEPT ![stepIndex].headers.map = ReplaceMap(@, ctx)]
  ELSE fl

\* JSON.parse of the substituted JSON text of the body throws when a value
\* substituted into it holds a double quote
JsonSafe(text) == text # "tok\"C"
JsonParses(map) ==
  \A k \in DOMAIN map : \A n \in DOMAIN map[k] :
     map[k][n][1] = "lit" => JsonSafe(map[k][n][2])

\* The shared objects a task reads and writes, threaded through the
\* synchronous code of a task: [flow, flowMetrics, metrics, attempts].
\* StartStep: executeFlow's loop body up to the transport call of makeRequest
\* (or to makeRequest's catch block when building the request throws).
StartStep(w, task, stepIndex) ==
  LET ctx == task.flowContext
      request == ResolveRequestConfig(BuildRequestConfig(w.flow[stepIndex]), ctx)
      parses == ~request.data.present \/ JsonParses(request.data.map)
  IN [w |-> [w EXCEPT !.flow = HeadersWrittenThrough(@, stepIndex, ctx),
                      !.attempts[stepIndex] = @ + 1,
                      !.flowMetrics[stepIndex] = IF parses THEN @ ELSE CountStepFailure(@)],
      task |-> [task EXCEPT !.i = stepIndex,
                            !.requestConfig = request,
                            !.pc = IF parses THEN "transport" ELSE "resume",
                            !.result = IF parses THEN @ ELSE FailureResult(<<"Unexpected token">>, 0),
                            !.log = IF parses THEN @ ELSE Append(@, Outcome(stepIndex, FALSE, FALSE, 0))]]

\* executeFlow after its loop: the flow's outcome goes into this.metrics
FinishFlow(w, task) ==
  [w |-> [w EXCEPT !.metrics = UpdateFlowMetrics(@, task.allStepsSuccessful, task.elapsed,
                                                  task.flowAssertionFailures)],
   task |-> [task EXCEPT !.pc = "done", !.requestConfig = NoRequest]]

\* (mutant) only stopOnFailure: true aborts the flow
StopsOnFailureIfTrue(step) == step.stopOnFailure = True

\* step.stopOnFailure !== false
StopsOnFailure(step) == step.stopOnFailure # False

\* (mutant) the body is saved whether or not the step succeeded
SaveAsAlways(ctx, step, result) ==
  IF step.saveAs # "" THEN CtxSet(ctx, step.saveAs, result.data) ELSE ctx

\* if (result.success && step.saveAs) flowContext[step.saveAs] = result.data
SaveAs(ctx, step, result) ==
  IF result.success /\ step.saveAs # "" THEN CtxSet(ctx, step.saveAs, result.data) ELSE ctx

\* (mutant) the envelope is kept only of a step that succeeded
SaveResponseAsOnSuccess(ctx, step, result) ==
  IF result.success /\ step.saveResponseAs # ""
  THEN CtxSet(ctx, step.saveResponseAs,
              Envelope(result.data, result.headers, result.statusCode))
  ELSE ctx

\* if (step.saveResponseAs) flowContext[step.saveResponseAs] = {data, headers, status}
SaveResponseAs(ctx, step, result) ==
  IF step.saveResponseAs # ""
  THEN CtxSet(ctx, step.saveResponseAs,
              Envelope(result.data, result.headers, result.statusCode))
  ELSE ctx

\* (mutant) the loop index is advanced twice: the step after the one just
\* run is skipped when another follows it
ContinueFlowSkipping(w, task) ==
  LET step == w.flow[task.i]
      result == task.result
      failed == ~result.success
      stop == failed /\ StopsOnFailure(step)
      ctx2 == SaveResponseAs(SaveAs(task.flowContext, step, result), step, result)
      t1 == [task EXCEPT !.allStepsSuccessful = @ /\ ~failed,
                         !.flowAssertionFailures =
                            IF failed /\ result.assertionErrors # <<>> THEN @ + 1 ELSE @,
                         !.flowContext = IF stop THEN @ ELSE ctx2,
                         !.result = NoResult]
  IN IF stop \/ task.i = Len(w.flow) THEN FinishFlow(w, t1)
     ELSE StartStep(w, t1, Min(task.i + 2, Len(w.flow)))

\* executeFlow from the return of makeRequest to its next await: the
\* rest of the loop body for the step just run, then the next step or the end
ContinueFlow(w, task) ==
  LET step == w.flow[task.i]
      result == task.result
      failed == ~result.success
      stop == failed /\ StopsOnFailure(step)
      ctx2 == SaveResponseAs(SaveAs(task.flowContext, step, result), step, result)
      t1 == [task EXCEPT !.allStepsSuccessful = @ /\ ~failed,
                         !.flowAssertionFailures =
                            IF failed /\ result.assertionErrors # <<>> THEN @ + 1 ELSE @,
                         !.flowContext = IF stop THEN @ ELSE ctx2,
                         !.result = NoResult]
  IN IF stop \/ task.i = Len(w.flow) THEN FinishFlow(w, t1)
     ELSE StartStep(w, t1, task.i + 1)

\* StressTest.makeRequest up to the transport call; JSON.parse of a headers
\* string that is no JSON throws inside the try, into the catch block
StartRequest(w, task) ==
  IF options.headers = "badjson"
  THEN [w |-> [w EXCEPT !.metrics = CountRequestFailure(@)],
        task |-> [task EXCEPT !.pc = "done", !.log = Append(@, Outcome(0, FALSE, FALSE, 0))]]
  ELSE [w |-> w,
        task |-> [task EXCEPT !.pc = "transport",
                              !.requestConfig =
                                 [method |-> "POST", url |-> <<Lit("/auth/login")>>,
                                  headers |-> IF options.headers = "absent" THEN NoMap
                                              ELSE [ContentType |-> <<Lit("application/json")>>],
                                  data |-> [present |-> TRUE, map |-> LoginData.map]]]]

\* Array(batchSize).fill().map(() => this.executeFlow()): the tasks are
\* started one after the other, each running to its first await
RECURSIVE StartTasks(_, _, _)
StartTasks(w, n, started) ==
  IF n = 0 THEN [w |-> w, tasks |-> started]
  ELSE LET s == IF options.mode = "flow" THEN StartStep(w, NewTask, 1)
                ELSE StartRequest(w, NewTask)
       IN StartTasks(s.w, n - 1, Append(started, s.task))

Shared == [flow |-> flow, flowMetrics |-> flowMetrics, metrics |-> metrics,
           attempts |-> attempts]

\* (mutant) Promise.race: the first task to return ends the wait
AnySettled(tasks) == \E k \in DOMAIN tasks : tasks[k].pc = "done"

\* Promise.all(batch) resolves when every task of the wave has returned
AllSettled(tasks) == \A k \in DOMAIN tasks : tasks[k].pc = "done"

\* (mutant) every wave is of full size
BatchSizeNoMin(concurrent, total, index) == concurrent

\* Math.min(concurrentUsers, totalFlows - i)
BatchSize(concurrent, total, index) == Min(concurrent, total - index)

\* parseInt(x) || d for a count x >= 0
ParseIntOr(x, d) == IF x = 0 THEN d ELSE x

\* no function is being called on its own
NoCall == [fn |-> "none"]

\* a call of replaceTemplateValues(str, context), and of the assertion loop of
\* makeRequest for a response the transport gave after `latency` ms
TemplateCall(str, ctx) ==
  [fn |-> "replaceTemplateValues", pc |-> "called", str |-> str, context |-> ctx,
   returned |-> <<>>]
AssertionsCall(assertions, response, latency, ctx) ==
  [fn |-> "runAssertions", pc |-> "called", assertions |-> assertions,
   response |-> response, latency |-> latency, context |-> ctx,
   returned |-> [passed |-> TRUE, errors |-> <<>>]]

\* ---------------------------------------------------------------- inputs
\* Flow mode: number >= 1 (FlowLoader reads a number of 0 as DefaultTotalFlows),
\* concurrent 0 is read as DefaultConcurrentUsers; a flow of several steps is
\* run fewer times: steps * number <= MaxTotal + 1. headers and data strings
\* of a step are JSON texts that parse.
FlowConfigs ==
  { cfg \in { [mode |-> "flow", number |-> n, concurrent |-> c, flowKind |-> "array",
               flow |-> f, headers |-> "absent"] :
                 n \in 1..MaxTotal, c \in 0..MaxConcurrent, f \in Flows } :
      cfg.number * Len(cfg.flow) <= MaxTotal + 1 }
InvalidConfigs ==
  { [mode |-> "flow", number |-> 1, concurrent |-> 1, flowKind |-> kind,
     flow |-> <<>>, headers |-> "absent"] : kind \in {"missing", "notArray", "array"} }
RequestConfigs ==
  { [mode |-> "single", number |-> n, concurrent |-> c, flowKind |-> "missing",
     flow |-> <<>>, headers |-> h] :
       n \in 0..MaxTotal, c \in 0..MaxConcurrent, h \in {"object", "badjson"} }
Configs == FlowConfigs \cup InvalidConfigs \cup RequestConfigs

\* the contexts and strings the Template Resolver is called with
Contexts ==
  { EmptyContext,
    CtxSet(EmptyContext, "auth", ObjV("bodyA")),
    CtxSet(EmptyContext, "auth", ObjV("bodyC")),
    CtxSet(EmptyContext, "auth", Null),
    CtxSet(EmptyContext, "auth", StrV("abc")),
    CtxSet(EmptyContext, "refresh", Envelope(Undefined, Undefined, Undefined)),
    CtxSet(CtxSet(EmptyContext, "auth", ObjV("bodyA")), "refresh",
           Envelope(ObjV("bodyC"), ObjV("hdrJson"), NumV("200"))) }
Templates ==
  { <<Lit("/ping")>>,
    <<Lit("Bearer "), <<"ph", "auth", "Result", "accessToken">>>>,
    <<<<"ph", "missing", "key">>>>,
    <<<<"ph", "auth">>>>,
    <<<<"ph", "auth", "status">>>>,
    <<<<"ph", "auth", "status", "code">>>>,
    <<Lit("/items/"), <<"ph", "auth", "count">>>>,
    <<<<"ph", "refresh", "data", "Result", "accessToken">>, Lit("/"),
      <<"ph", "refresh", "status">>>> }

\* the assertions, one of each kind and operator, and the responses they are
\* evaluated on
ResponseTime(threshold) == Assertion("responseTime", NumV(threshold), <<>>, "", "", "")
Header(name, value) == Assertion("header", value, <<>>, "", name, "")
Custom(fn) == Assertion("custom", Undefined, <<>>, "", "", fn)
Assertions ==
  { StatusIs("200"),
    JsonPath(<<"status">>, "equals", StrV("ok")),
    JsonPath(<<"status">>, "contains", StrV("ok")),
    JsonPath(<<"status">>, "exists", Undefined),
    JsonPath(<<"status">>, "notExists", Undefined),
    JsonPath(<<"Result", "accessToken">>, "exists", Undefined),
    JsonPath(<<"Result", "accessToken">>, "notExists", Undefined),
    JsonPath(<<"missing">>, "exists", Undefined),
    JsonPath(<<"missing">>, "notExists", Undefined),
    JsonPath(<<"status", "code">>, "exists", Undefined),
    JsonPath(<<"status", "code">>, "notExists", Undefined),
    JsonPath(<<"count">>, "greaterThan", NumV("1")),
    JsonPath(<<"count">>, "lessThan", NumV("1")),
    JsonPath(<<"status">>, "greaterThan", NumV("1")),
    JsonPath(<<"status">>, "match", StrV("ok")),
    JsonPath(<<"status">>, "match", StrV("(")),
    JsonPath(<<"status">>, "between", NumV("1")),
    ResponseTime("0"), ResponseTime("1"),
    Header("contentType", StrV("application/json")),
    Header("contentType", Undefined),
    Header("etag", Undefined),
    Custom("isOk"), Custom("needsAuth"), Custom("throws"),
    Assertion("schema", Undefined, <<>>, "", "", "") }
AssertionLists ==
  { <<a>> : a \in Assertions }
    \cup { <<JsonPath(<<"count">>, "greaterThan", NumV("1")), StatusIs("200")>>,
           <<ResponseTime("1"), JsonPath(<<"status">>, "exists", Undefined)>> }
CallResponses == Responses \cup { Response(NumV("200"), ObjV("bodyC"), ObjV("hdrJson")) }
Calls ==
  { TemplateCall(str, ctx) : str \in Templates, ctx \in Contexts }
    \cup { AssertionsCall(assertions, response, latency, ctx) :
             assertions \in AssertionLists, response \in CallResponses,
             latency \in Latencies,
             ctx \in {EmptyContext, CtxSet(EmptyContext, "auth", ObjV("bodyA"))} }

\* ------------------------------------------------------------------ Init
\* the state after new FlowLoader(options) / new StressTest(options)
InitRun(cfg) ==
  /\ options = cfg
  /\ flow = options.flow
  /\ flow0 = options.flow
  /\ metrics = InitMetrics
  /\ flowMetrics = InitFlowMetrics(options.flow)
  /\ runPc = "start"
  /\ totalFlows = 0
  /\ concurrentUsers = 0
  /\ i = 0
  /\ batch = <<>>
  /\ progress = 0
  /\ attempts = [index \in DOMAIN options.flow |-> 0]
  /\ launched = 0
  /\ waves = <<>>
  /\ waveStart = [metrics |-> InitMetrics, flowMetrics |-> InitFlowMetrics(options.flow)]
  /\ updates = <<>>
  /\ consoleError = <<>>
  /\ report = NoReport
  /\ process = NotExited

Init ==
  /\ \E cfg \in Configs : InitRun(cfg)
  /\ call = NoCall

\* --------------------------------------------------------------- actions
\* run() up to its loop: validation (FlowLoader), the totals, the counters
RunStart ==
  /\ runPc = "start"
  /\ IF options.mode = "flow" /\ (options.flowKind # "array" \/ Len(flow) = 0)
     THEN /\ consoleError' = Append(consoleError, FlowConfigError)
          /\ runPc' = "invalid"
          /\ process' = Exited(0)
          /\ UNCHANGED <<totalFlows, concurrentUsers, metrics>>
     ELSE /\ runPc' = "loop"
          /\ UNCHANGED <<consoleError, process>>
          /\ totalFlows' = IF options.mode = "flow"
                           THEN ParseIntOr(options.number, DefaultTotalFlows)
                           ELSE options.number
          /\ concurrentUsers' = IF options.mode = "flow"
                                THEN ParseIntOr(options.concurrent, DefaultConcurrentUsers)
                                ELSE options.concurrent
          /\ metrics' = [metrics EXCEPT !.successCount = 0, !.failureCount = 0]
  /\ i' = 0
  /\ progress' = 0
  /\ UNCHANGED <<options, flow, flowMetrics, batch, flow0, attempts, launched, waves,
                 waveStart, updates, report, call>>

\* the loop body up to await Promise.all(batch)
LaunchWave ==
  /\ runPc = "loop"
  /\ i < totalFlows
  /\ LET batchSize == BatchSize(concurrentUsers, totalFlows, i)
         s == StartTasks(Shared, batchSize, <<>>)
     IN /\ batch' = s.tasks
        /\ flow' = s.w.flow
        /\ flowMetrics' = s.w.flowMetrics
        /\ metrics' = s.w.metrics
        /\ attempts' = s.w.attempts
        /\ launched' = launched + batchSize
        /\ waves' = IF Len(waves) <= MaxTotal THEN Append(waves, batchSize) ELSE waves
        /\ waveStart' = [metrics |-> metrics, flowMetrics |-> flowMetrics]
  /\ runPc' = "await"
  /\ UNCHANGED <<options, totalFlows, concurrentUsers, i, progress, flow0,
                 updates, consoleError, report, process, call>>

\* FlowLoader.makeRequest resumes with the response of the transport and runs
\* to its return. (The awaits of runAssertion inside the loop suspend the task
\* too, but between them it reads and writes only its own locals, so they are
\* not steps of their own.)
MakeRequestReturns(k, response, latency) ==
  /\ options.mode = "flow"
  /\ batch[k].pc = "transport"
  /\ LET task == batch[k]
         a == RunAssertions(flow[task.i].assertions, response, task.flowContext,
                            [passed |-> TRUE, errors |-> <<>>])
     IN /\ flowMetrics' = [flowMetrics EXCEPT
                             ![task.i] = UpdateStepMetrics(@, a.passed, latency)]
        /\ batch' = [batch EXCEPT ![k] =
              [task EXCEPT !.pc = "resume",
                           !.result = [success |-> a.passed, data |-> response.data,
                                       latency |-> latency, statusCode |-> response.status,
                                       headers |-> response.headers,
                                       assertionErrors |-> a.errors, error |-> <<>>],
                           !.elapsed = @ + latency,
                           !.log = Append(@, Outcome(task.i, TRUE, a.passed, latency))]]
  /\ UNCHANGED <<options, flow, metrics, runPc, totalFlows, concurrentUsers, i, progress,
                 flow0, attempts, launched, waves, waveStart,
                 updates, consoleError, report, process, call>>

\* FlowLoader.makeRequest resumes in its catch block: the transport rejected
MakeRequestFails(k, latency) ==
  /\ options.mode = "flow"
  /\ batch[k].pc = "transport"
  /\ flowMetrics' = [flowMetrics EXCEPT ![batch[k].i] = CountStepFailure(@)]
  /\ batch' = [batch EXCEPT ![k] =
        [@ EXCEPT !.pc = "resume",
                  !.result = FailureResult(<<"Network Error">>, latency),
                  !.elapsed = @ + latency,
                  !.log = Append(@, Outcome(batch[k].i, FALSE, FALSE, latency))]]
  /\ UNCHANGED <<options, flow, metrics, runPc, totalFlows, concurrentUsers, i, progress,
                 flow0, attempts, launched, waves, waveStart,
                 updates, consoleError, report, process, call>>

\* executeFlow resumes with the result of makeRequest
ResumeFlow(k) ==
  /\ options.mode = "flow"
  /\ batch[k].pc = "resume"
  /\ LET s == ContinueFlow(Shared, batch[k])
     IN /\ batch' = [batch EXCEPT ![k] = s.task]
        /\ flow' = s.w.flow
        /\ flowMetrics' = s.w.flowMetrics
        /\ metrics' = s.w.metrics
        /\ attempts' = s.w.attempts
  /\ UNCHANGED <<options, runPc, totalFlows, concurrentUsers, i, progress, flow0,
                 launched, waves, waveStart,
                 updates, consoleError, report, process, call>>

\* StressTest.makeRequest resumes after await axios(requestConfig)
RequestReturns(k, latency) ==
  /\ options.mode = "single"
  /\ batch[k].pc = "transport"
  /\ metrics' = CountRequestSuccess(metrics, latency)
  /\ batch' = [batch EXCEPT ![k] =
        [@ EXCEPT !.pc = "done", !.elapsed = latency, !.requestConfig = NoRequest,
                  !.log = Append(@, Outcome(0, TRUE, TRUE, latency))]]
  /\ UNCHANGED <<options, flow, flowMetrics, runPc, totalFlows, concurrentUsers, i,
                 progress, flow0, attempts, launched, waves, waveStart,
                 updates, consoleError, report, process, call>>

\* StressTest.makeRequest resumes in its catch block
RequestFails(k) ==
  /\ options.mode = "single"
  /\ batch[k].pc = "transport"
  /\ metrics' = CountRequestFailure(metrics)
  /\ batch' = [batch EXCEPT ![k] =
        [@ EXCEPT !.pc = "done", !.requestConfig = NoRequest,
                  !.log = Append(@, Outcome(0, FALSE, FALSE, 0))]]
  /\ UNCHANGED <<options, flow, flowMetrics, runPc, totalFlows, concurrentUsers, i,
                 progress, flow0, attempts, launched, waves, waveStart,
                 updates, consoleError, report, process, call>>

\* run() resumes after await Promise.all(batch): progress, then i += concurrentUsers
WaveDrained ==
  /\ runPc = "await"
  /\ AllSettled(batch)
  /\ progress' = i + Len(batch)
  /\ updates' = IF Len(updates) <= MaxTotal THEN Append(updates, i + Len(batch)) ELSE updates
  /\ i' = i + concurrentUsers
  /\ runPc' = "loop"
  /\ UNCHANGED <<options, flow, metrics, flowMetrics, totalFlows, concurrentUsers, batch,
                 flow0, attempts, launched, waves, waveStart, consoleError, report,
                 process, call>>

\* the loop ends: progressBar.stop() and displayResults; run() returns and
\* the process, with nothing left to do, exits
Finish ==
  /\ runPc = "loop"
  /\ ~(i < totalFlows)
  /\ runPc' = "done"
  /\ report' = IF options.mode = "flow" THEN displayResults(metrics, flowMetrics, totalFlows)
                ELSE StressTestDisplayResults(metrics, totalFlows)
  /\ process' = Exited(0)
  /\ UNCHANGED <<options, flow, metrics, flowMetrics, totalFlows, concurrentUsers, i,
                 batch, progress, flow0, attempts, launched, waves, waveStart, updates,
                 consoleError, call>>

Next ==
  \/ RunStart
  \/ LaunchWave
  \/ \E k \in DOMAIN batch, response \in Responses, latency \in Latencies :
        MakeRequestReturns(k, response, latency)
  \/ \E k \in DOMAIN batch, latency \in Latencies : MakeRequestFails(k, latency)
  \/ \E k \in DOMAIN batch : ResumeFlow(k)
  \/ \E k \in DOMAIN batch, latency \in Latencies : RequestReturns(k, latency)
  \/ \E k \in DOMAIN batch : RequestFails(k)
  \/ WaveDrained
  \/ Finish

Spec == Init /\ [][Next]_vars

\* ------------------------------------------- the functions on their own
\* a FlowLoader constructed from the flow of src/flows/flow-test.js, of which
\* one method is called with arguments from Calls; run() is not called
runVars == <<options, flow, metrics, flowMetrics, runPc, totalFlows, concurrentUsers, i,
             batch, progress, flow0, attempts, launched, waves, waveStart, updates,
             consoleError, report, process>>

EvalInit ==
  /\ InitRun([mode |-> "flow", number |-> 1, concurrent |-> 1, flowKind |-> "array",
              flow |-> FlowTest, headers |-> "absent"])
  /\ call \in Calls

\* replaceTemplateValues(str, context) returns
CallReplaceTemplateValues ==
  /\ call.fn = "replaceTemplateValues" /\ call.pc = "called"
  /\ call' = [call EXCEPT !.pc = "returned",
                          !.returned = replaceTemplateValues(call.str, call.context)]
  /\ UNCHANGED runVars

\* the assertion loop of makeRequest has run over the assertions
CallRunAssertions ==
  /\ call.fn = "runAssertions" /\ call.pc = "called"
  /\ call' = [call EXCEPT !.pc = "returned",
                          !.returned = RunAssertions(call.assertions, call.response,
                                                     call.context,
                                                     [passed |-> TRUE, errors |-> <<>>])]
  /\ UNCHANGED runVars

EvalNext == CallReplaceTemplateValues \/ CallRunAssertions

EvalSpec == EvalInit /\ [][EvalNext]_vars

\* ================================================================ claims
\* tasks of the current wave that were launched and have not returned
Running == Cardinality({k \in DOMAIN batch : batch[k].pc # "done"})

CeilDiv(a, b) == (a + b - 1) \div b

\* C1: for every total T and concurrency limit C >= 1 the scheduler launches
\* ceil(T/C) waves, the k-th of size min(C, T - (k-1)*C), and never are more
\* than C launched instances unfinished.
C1_WaveSizes ==
  (runPc \in {"loop", "await", "done"} /\ concurrentUsers >= 1) =>
    /\ Len(waves) <= CeilDiv(totalFlows, concurrentUsers)
    /\ \A k \in DOMAIN waves :
         waves[k] = IF concurrentUsers < totalFlows - (k - 1) * concurrentUsers
                    THEN concurrentUsers
                    ELSE totalFlows - (k - 1) * concurrentUsers
    /\ (runPc = "done" => Len(waves) = CeilDiv(totalFlows, concurrentUsers))
    /\ Running <= concurrentUsers

\* a run of 3 instances, 2 at a time, has ended after waves of 2 and 1
C1_Witness ==
  runPc = "done" /\ totalFlows = 3 /\ concurrentUsers = 2 /\ waves = <<2, 1>>

\* C2: a wave is launched only when every instance of the wave before it has
\* completed, in success or in failure.
C2_WavesDoNotOverlap ==
  [][launched' > launched => \A k \in DOMAIN batch : batch[k].pc = "done"]_vars

\* the second wave of flows is running after a wave in which a flow failed
C2_Witness ==
  /\ options.mode = "flow" /\ runPc = "await" /\ Len(waves) = 2 /\ Running >= 1
  /\ metrics.failureCount >= 1

\* makeRequest invocations of step `index` that are suspended in the transport call
InFlight(index) ==
  Cardinality({k \in DOMAIN batch : batch[k].pc = "transport" /\ batch[k].i = index})

\* C3: every invocation of makeRequest for step index increments exactly one of
\* the step's successCount and failureCount, once: the two add up to the
\* invocations of the step that have returned, and at every quiescent point
\* (and at run end) to the number of times the step was attempted.
C3_StepCounted ==
  options.mode = "flow" =>
    \A index \in DOMAIN flowMetrics :
       flowMetrics[index].successCount + flowMetrics[index].failureCount
         + InFlight(index) = attempts[index]

\* a run has ended in which one step passed, failed its assertion and failed
\* on transport
C3_Witness ==
  /\ options.mode = "flow" /\ runPc = "done"
  /\ \E index \in DOMAIN flowMetrics :
       /\ flowMetrics[index].successCount >= 1
       /\ flowMetrics[index].assertionFailures >= 1
       /\ flowMetrics[index].failureCount > flowMetrics[index].assertionFailures

WaveOutcomes ==
  {e \in (DOMAIN batch) \X (1..(Len(flow) + 1)) : e[2] \in DOMAIN batch[e[1]].log}
OutcomeAt(e) == batch[e[1]].log[e[2]]

RECURSIVE SumLatency(_)
SumLatency(entries) ==
  IF entries = {} THEN 0
  ELSE LET e == CHOOSE x \in entries : TRUE
       IN OutcomeAt(e).latency + SumLatency(entries \ {e})

RECURSIVE SumElapsed(_)
SumElapsed(tasks) ==
  IF tasks = {} THEN 0
  ELSE LET k == CHOOSE x \in tasks : TRUE
       IN batch[k].elapsed + SumElapsed(tasks \ {k})

FlowsReturned(success) ==
  {k \in DOMAIN batch : batch[k].pc = "done" /\ batch[k].allStepsSuccessful = success}

\* C5: no update of the shared metrics is lost under any interleaving of a
\* wave: at every point of the wave, and so once it has drained, every shared
\* count and sum has grown since the launch by what the outcomes of the wave
\* add up to.
C5_NoLostUpdate ==
  runPc = "await" =>
    /\ options.mode = "flow" =>
         /\ metrics.successCount - waveStart.metrics.successCount
              = Cardinality(FlowsReturned(TRUE))
         /\ metrics.failureCount - waveStart.metrics.failureCount
              = Cardinality(FlowsReturned(FALSE))
         /\ metrics.totalFlowTime - waveStart.metrics.totalFlowTime
              = SumElapsed(FlowsReturned(TRUE))
         /\ \A index \in DOMAIN flowMetrics :
              LET of == {e \in WaveOutcomes : OutcomeAt(e).step = index}
              IN /\ flowMetrics[index].successCount
                      - waveStart.flowMetrics[index].successCount
                      = Cardinality({e \in of : OutcomeAt(e).success})
                 /\ flowMetrics[index].failureCount
                      - waveStart.flowMetrics[index].failureCount
                      = Cardinality({e \in of : ~OutcomeAt(e).success})
                 /\ flowMetrics[index].totalLatency
                      - waveStart.flowMetrics[index].totalLatency
                      = SumLatency({e \in of : OutcomeAt(e).responded})
    /\ options.mode = "single" =>
         /\ metrics.successCount - waveStart.metrics.successCount
              = Cardinality({e \in WaveOutcomes : OutcomeAt(e).success})
         /\ metrics.failureCount - waveStart.metrics.failureCount
              = Cardinality({e \in WaveOutcomes : ~OutcomeAt(e).success})
         /\ metrics.totalLatency - waveStart.metrics.totalLatency
              = SumLatency({e \in WaveOutcomes : OutcomeAt(e).success})

\* a wave of two flows of two steps has drained, both flows having run both steps
C5_Witness ==
  /\ options.mode = "flow" /\ runPc = "await" /\ Len(batch) = 2
  /\ \A k \in DOMAIN batch : batch[k].pc = "done" /\ Len(batch[k].log) = 2
  /\ metrics.successCount = 2 /\ metrics.totalFlowTime >= 3

\* C6: the request a flow instance sends at a step is the step's loaded
\* definition resolved against that instance's own context, whatever other
\* instances received.
C6_Isolation ==
  options.mode = "flow" =>
    \A k \in DOMAIN batch :
       batch[k].pc = "transport" =>
         batch[k].requestConfig =
           ResolveRequestConfig(BuildRequestConfig(flow0[batch[k].i]), batch[k].flowContext)

\* C7: the step definitions of options.flow stay as they were loaded.
C7_DefinitionsReadOnly == flow = flow0

\* executeFlow(k) resumes with the result of a step and handles it
Handles(k) ==
  /\ options.mode = "flow"
  /\ k \in DOMAIN batch' /\ batch[k].pc = "resume" /\ batch'[k].pc # "resume"

\* C8: after an unsuccessful step of a flow instance the next step is attempted
\* if and only if the step's stopOnFailure is explicitly false (and there is a
\* next step); either way the flow ends as a failure, counted in the
\* run-level failure count.
C8_StopOnFailure ==
  options.mode = "flow" =>
    /\ \A k \in DOMAIN batch : \A p \in DOMAIN batch[k].log :
         LET task == batch[k]
             handled == ~(task.pc = "resume" /\ task.i = p)
             continues == flow0[p].stopOnFailure = False
         IN /\ task.log[p].step = p
            /\ (~task.log[p].success /\ handled) =>
                 /\ ~task.allStepsSuccessful
                 /\ (continues /\ p < Len(flow0)) => task.i > p
                 /\ ~continues => (task.i = p /\ task.pc = "done")
    /\ runPc = "await" =>
         metrics.failureCount - waveStart.metrics.failureCount =
           Cardinality({k \in DOMAIN batch :
              batch[k].pc = "done" /\ \E p \in DOMAIN batch[k].log : ~batch[k].log[p].success})

\* step 2 of 3 failed with stopOnFailure: false, step 3 was run, and the flow
\* is counted as a failure
C8_Witness ==
  /\ options.mode = "flow" /\ runPc = "await" /\ Len(flow0) = 3
  /\ \E k \in DOMAIN batch :
       /\ batch[k].pc = "done" /\ Len(batch[k].log) = 3
       /\ batch[k].log[1].success /\ ~batch[k].log[2].success /\ batch[k].log[3].success
       /\ ~batch[k].allStepsSuccessful
  /\ metrics.failureCount = 1

C10_EnvelopeAlwaysStored ==
  [][\A k \in DOMAIN batch :
       Handles(k) =>
         LET step == flow[batch[k].i]
             result == batch[k].result
             new == batch'[k].flowContext
         IN step.saveResponseAs # "" =>
              /\ step.saveResponseAs \in DOMAIN new
              /\ new[step.saveResponseAs] =
                   Envelope(result.data, result.headers, result.statusCode)]_vars

\* C10 amended: the envelope {data, headers, status} of the step's result (all
\* three undefined when the step failed on transport) is stored unless the
\* flow aborts at the step, that is unless the step failed and its
\* stopOnFailure is not false; then the context is left as it was.
C10_EnvelopeStoredUnlessAborted ==
  [][\A k \in DOMAIN batch :
       Handles(k) =>
         LET step == flow[batch[k].i]
             result == batch[k].result
             old == batch[k].flowContext
             new == batch'[k].flowContext
         IN IF ~result.success /\ step.stopOnFailure # False
            THEN new = old
            ELSE step.saveResponseAs # "" =>
                   /\ step.saveResponseAs \in DOMAIN new
                   /\ new[step.saveResponseAs] =
                        Envelope(result.data, result.headers, result.statusCode)]_vars

\* step 2 failed on transport with stopOnFailure: false: step 3 runs with the
\* envelope of step 2, all undefined, in the context
C10_Witness ==
  /\ options.mode = "flow" /\ Len(flow0) = 3
  /\ \E k \in DOMAIN batch :
       /\ batch[k].pc = "transport" /\ batch[k].i = 3
       /\ ~batch[k].log[2].responded
       /\ flow0[2].saveResponseAs = "refresh"
       /\ batch[k].flowContext["refresh"] = Envelope(Undefined, Undefined, Undefined)

\* makeRequest of task k returns from its catch block: the transport rejected
TransportFailed(k) ==
  /\ options.mode = "flow"
  /\ k \in DOMAIN batch' /\ batch[k].pc = "transport" /\ batch'[k].pc = "resume"
  /\ ~batch'[k].log[Len(batch'[k].log)].responded

\* C11: on a transport failure no assertion of the step is evaluated (no
\* assertion failure is listed or counted), makeRequest returns a failure with
\* the transport's error message and a latency >= 0, the step's failureCount
\* goes up by one and nothing else of the metrics changes, and nothing is
\* thrown: executeFlow resumes with the returned value, the other tasks of the
\* wave and run() are left as they are.
C11_TransportFailureShortCircuits ==
  [][\A k \in DOMAIN batch :
       TransportFailed(k) =>
         LET index == batch[k].i
             result == batch'[k].result
         IN /\ ~result.success
            /\ result.error = <<"Network Error">>
            /\ result.latency >= 0
            /\ result.assertionErrors = <<>>
            /\ flowMetrics' = [flowMetrics EXCEPT ![index].failureCount = @ + 1]
            /\ metrics' = metrics
            /\ batch'[k].i = index
            /\ \A other \in DOMAIN batch : other # k => batch'[other] = batch[other]
            /\ runPc' = runPc /\ process' = process]_vars

\* the transport rejected in a step that has assertions, with another task of
\* the wave still waiting for its response
C11_Witness ==
  /\ options.mode = "flow"
  /\ \E k \in DOMAIN batch :
       /\ batch[k].pc = "resume"
       /\ batch[k].result.error = <<"Network Error">>
       /\ flow[batch[k].i].assertions # <<>>
       /\ flowMetrics[batch[k].i].failureCount = 1
       /\ \E other \in DOMAIN batch : other # k /\ batch[other].pc = "transport"

\* the response a returned result was built from
ResponseOf(result) == Response(result.statusCode, result.data, result.headers)

\* what one assertion, evaluated on its own, comes to: whether it passes, and
\* the entry makeRequest lists for it when it does not
Passes(a, response, ctx) ==
  LET r == runAssertion(a, response, ctx) IN ~r.threw /\ r.passed
ReasonOf(a, response, ctx) ==
  LET r == runAssertion(a, response, ctx)
  IN IF r.threw THEN <<"Assertion error">> \o r.error ELSE r.error

\* success is the AND of the assertions taken one by one, and errors lists the
\* entry of each assertion that does not pass, in the order of the assertions
CollectsAll(assertions, response, ctx, success, errors) ==
  LET failing == {n \in DOMAIN assertions : ~Passes(assertions[n], response, ctx)}
      rank(n) == Cardinality({m \in failing : m <= n})
  IN /\ success = (failing = {})
     /\ Len(errors) = Cardinality(failing)
     /\ \A n \in failing : errors[rank(n)] = ReasonOf(assertions[n], response, ctx)

\* C12: when the transport call succeeded, every assertion of the step is
\* evaluated, in order, without stopping at a failure: the result's success
\* flag is the AND of all the assertions' results and assertionErrors has one
\* entry per failing assertion, in the order of the assertions.
C12_AllAssertionsEvaluated ==
  options.mode = "flow" =>
    \A k \in DOMAIN batch :
       (batch[k].pc = "resume" /\ batch[k].result.error = <<>>) =>
         CollectsAll(flow[batch[k].i].assertions, ResponseOf(batch[k].result),
                     batch[k].flowContext, batch[k].result.success,
                     batch[k].result.assertionErrors)

\* a step of two assertions got a response that fails both: both are listed
C12_Witness ==
  /\ options.mode = "flow"
  /\ \E k \in DOMAIN batch :
       /\ batch[k].pc = "resume" /\ batch[k].result.error = <<>>
       /\ Len(flow[batch[k].i].assertions) = 2
       /\ ~batch[k].result.success
       /\ Len(batch[k].result.assertionErrors) = 2
       /\ batch[k].result.assertionErrors[1] # batch[k].result.assertionErrors[2]

\* C13: a step's totalLatency, minLatency and maxLatency change only with an
\* execution that is counted in its successCount: a step execution that is
\* not a success (transport failure, failed assertion) leaves the three as
\* they were.
C13_LatencyOnlyOnSuccess ==
  [][options.mode = "flow" =>
       \A index \in DOMAIN flowMetrics :
          flowMetrics'[index].successCount = flowMetrics[index].successCount =>
            /\ flowMetrics'[index].totalLatency = flowMetrics[index].totalLatency
            /\ flowMetrics'[index].minLatency = flowMetrics[index].minLatency
            /\ flowMetrics'[index].maxLatency = flowMetrics[index].maxLatency]_vars

\* the lines of a record without a success: left out, or an explicit zero
NoSentinel(successful, statistics) ==
  (successful = 0 /\ statistics.shown) =>
    (statistics.Minimum = 0 /\ statistics.Maximum = 0)

\* C14: the final report shows of no metrics record that has no successful
\* observation (a step, the flows, the requests of a single-request run) the
\* sentinel as its minimum or maximum: the value is left out or is a zero.
C14_NoSentinelReported ==
  report.printed =>
    /\ NoSentinel(report.successful, report.statistics)
    /\ \A index \in DOMAIN report.steps :
         NoSentinel(report.steps[index].successful, report.steps[index].statistics)

\* C15: when options.flow is missing, is no array or is empty, the run aborts
\* before anything is executed: nothing is launched, no transport call is
\* made, the metrics are as constructed, a message has been written, and the
\* process ends with an exit code other than 0.
C15_InvalidFlowAborts ==
  (options.mode = "flow" /\ (options.flowKind # "array" \/ Len(flow0) = 0)
     /\ runPc # "start") =>
    /\ runPc = "invalid"
    /\ launched = 0 /\ batch = <<>> /\ waves = <<>>
    /\ metrics = InitMetrics /\ flowMetrics = InitFlowMetrics(flow0)
    /\ ~report.printed
    /\ consoleError # <<>>
    /\ process.exited /\ process.exitCode # 0

\* the value reached by walking a placeholder's path through the context by
\* successive key lookups: undefined when a segment is missing
Reached(tok, ctx) == getValueByPath(CtxGet(ctx, tok[2]), SubSeq(tok, 3, Len(tok)))

\* C16: replaceTemplateValues replaces each {{dotted.path}} by the value
\* reached through the context, and leaves the whole placeholder as it is
\* when a segment is missing or the value reached, on the way or at the end,
\* is null or undefined; the rest of the string is kept.
C16_TemplateResolver ==
  (call.fn = "replaceTemplateValues" /\ call.pc = "returned") =>
    /\ Len(call.returned) = Len(call.str)
    /\ \A n \in DOMAIN call.str :
         LET tok == call.str[n]
         IN call.returned[n] =
              IF tok[1] # "ph" \/ IsNullish(Reached(tok, call.context)) THEN tok
              ELSE Lit(ToText(Reached(tok, call.context)))

\* the dotted path is present in the parsed body, whatever its value
RECURSIVE PathPresent(_, _)
PathPresent(v, path) ==
  \/ path = <<>>
  \/ /\ v[1] = "obj"
     /\ Head(path) \in DOMAIN ObjectProps(v[2])
     /\ PathPresent(ObjectProps(v[2])[Head(path)], Tail(path))

\* C17: a jsonPath assertion with operator exists passes exactly when the path
\* is present in the body, a null value included, and with notExists exactly
\* when the path is absent (so each passes exactly when the other does not).
C17_ExistsIffPresent ==
  (call.fn = "runAssertions" /\ call.pc = "returned" /\ Len(call.assertions) = 1) =>
    LET a == call.assertions[1]
        present == PathPresent(call.response.data, a.path)
    IN /\ (a.type = "jsonPath" /\ a.operator = "exists") => (call.returned.passed = present)
       /\ (a.type = "jsonPath" /\ a.operator = "notExists") => (call.returned.passed = ~present)

\* C18: a responseTime assertion with threshold t, evaluated on the response
\* of a transport call that took `latency` ms by makeRequest's measure, passes
\* exactly when latency <= t, and when it fails its reason is the
\* response-time message (measured time, threshold).
C18_ResponseTimeIffWithinThreshold ==
  (call.fn = "runAssertions" /\ call.pc = "returned" /\ Len(call.assertions) = 1
     /\ call.assertions[1].type = "responseTime") =>
    /\ call.returned.passed = (call.latency <= ToNumber(call.assertions[1].value))
    /\ ~call.returned.passed =>
         /\ Len(call.returned.errors) = 1
         /\ call.returned.errors[1][1] = "Response time"

\* C19: every assertion that does not pass has its reason in the result's
\* assertionErrors, and the reason is a text, not null: this for every kind
\* and operator and every body, the evaluations that fail inside (invalid
\* regular expression, path through a non-object, missing or non-comparable
\* value, custom predicate that throws) included.
C19_FailuresHaveReasons ==
  (call.fn = "runAssertions" /\ call.pc = "returned") =>
    LET failing == {n \in DOMAIN call.assertions :
                      ~Passes(call.assertions[n], call.response, call.context)}
    IN /\ call.returned.passed = (failing = {})
       /\ Len(call.returned.errors) = Cardinality(failing)
       /\ \A j \in DOMAIN call.returned.errors :
            call.returned.errors[j] # NullReason /\ call.returned.errors[j] # <<>>

\* C20: one progress update per wave, made when the wave has drained and
\* before the next is launched; the k-th update reports min(k*C, T), the
\* number of instances completed by then; the reported values go strictly up
\* and the last one is T. (The histories stop growing after MaxTotal + 1
\* entries; the claim is read on the entries before that.)
C20_ProgressPerWave ==
  (runPc \in {"loop", "await", "done"} /\ Len(waves) <= MaxTotal) =>
    /\ Len(updates) = IF runPc = "await" THEN Len(waves) - 1 ELSE Len(waves)
    /\ \A k \in DOMAIN updates :
         updates[k] = Min(k * concurrentUsers, totalFlows)
    /\ (runPc = "loop" /\ updates # <<>>) =>
         /\ updates[Len(updates)] = launched
         /\ \A k \in DOMAIN batch : batch[k].pc = "done"
    /\ \A j, k \in DOMAIN updates : j < k => updates[j] < updates[k]
    /\ (runPc = "done" /\ totalFlows > 0) => updates[Len(updates)] = totalFlows

\* C21: every iteration of the wave loop moves the index of launched
\* instances strictly up, for every total and every concurrency setting >= 0
\* in both modes, so that the run reaches its report once the transport
\* calls of each wave have returned or failed.
C21_IndexAdvances ==
  [][(runPc = "await" /\ runPc' = "loop") => (i' > i /\ i' >= launched')]_vars

\* C22: the steps of a flow instance run one after the other in declared
\* order: an instance is at step p only with the outcomes of steps 1..p-1 in
\* hand, in that order; so at every state a step has been attempted at most
\* as often as the step before it, the first step as often as instances were
\* launched, which is the total at run end.
C22_StepsFormPrefix ==
  (options.mode = "flow" /\ runPc \in {"loop", "await", "done"}) =>
    /\ \A p \in DOMAIN attempts : (p + 1) \in DOMAIN attempts => attempts[p + 1] <= attempts[p]
    /\ attempts[1] = launched
    /\ runPc = "done" => attempts[1] = totalFlows
    /\ \A k \in DOMAIN batch :
         LET task == batch[k]
         IN /\ \A q \in DOMAIN task.log : task.log[q].step = q
            /\ task.pc = "transport" => Len(task.log) = task.i - 1
            /\ task.pc \in {"resume", "done"} => Len(task.log) = task.i

\* a run of two flows of two steps has ended: one flow stopped at its first
\* step, the other ran both
C22_Witness ==
  /\ options.mode = "flow" /\ runPc = "done" /\ Len(flow0) = 2
  /\ totalFlows = 2 /\ attempts = <<2, 1>>

====
